---- MODULE Spec2Model ----
(***************************************************************************)
(* Restaurant backend (FastAPI handlers over a relational store).          *)
(*                                                                         *)
(* The state is the committed content of the tables menu_items,            *)
(* reservations, orders and order_items, the id sequences of the tables,   *)
(* the response of the last handler that returned, and, for the handlers   *)
(* that commit more than once, the position and locals of each request in  *)
(* flight.                                                                 *)
(*                                                                         *)
(* Money is counted in cents: the columns are NUMERIC with two decimals,   *)
(* float(price) * quantity of such a value and the running float sum are   *)
(* within 1e-9 of a whole number of cents, and the store rounds them back  *)
(* to that number on write.                                                *)
(***************************************************************************)
EXTENDS Integers, Sequences, FiniteSets, TLC

\* ---------------------------------------------------------------- bounds
MaxOrders == 2    \* rows ever inserted into orders

\* ------------------------------------------------------------ value sets
Prices   == {500, 1250}
Statuses == {"pending", "confirmed", "cancelled", "completed", "no_show"}

MenuIds         == {1, 2}   \* ids a request can name; menu_items hands them out in order
ReservationIds  == {1, 2}   \* ids a request can name
ReservationRows == {1}      \* the ids reservations hands out; the others match no row
OrderIds        == 1..MaxOrders
Procs           == {1, 2}   \* requests that can be in flight together

QuantitiesFromZero == {0, 1}   \* quantities without the gt=0 validation
Quantities      == {1, 2}
OrderItemCreate == [menu_item_id : MenuIds, quantity : Quantities]
ItemLists       == UNION {[1..n -> OrderItemCreate] : n \in {0, 1, 2}}
ShortLists      == {items \in ItemLists : Len(items) <= 1}

\* the bodies of the order requests; a body that names a reservation id no
\* row ever has is refused before its items are read, so it carries none
OrderCreate   == [reservation_id : ReservationIds, items : ItemLists]
OrderRequests == {order_create \in OrderCreate :
                     order_create.reservation_id \notin ReservationRows
                        => order_create.items = <<>>}

\* model_dump(exclude_unset=True) of a MenuItemUpdate / ReservationUpdate body
MenuItemUpdate    == UNION {[F -> Prices] : F \in SUBSET {"price"}}
ReservationUpdate == UNION {[F -> Statuses] : F \in SUBSET {"status"}}

\* users, tokens and time
Usernames  == {"admin", "guest"}
Roles      == {"admin", "customer"}
Passwords  == {"adminpassword", "secret"}
None       == "None"
TokenRoles == Roles \cup {"manager", None}   \* a role claim can be any value, or absent
TokenSubs  == Usernames \cup {None}

ACCESS_TOKEN_EXPIRE_MINUTES == 43200
\* the moments, in minutes, at which the model looks at the system
Times      == {0, 43200, 64800}
Expiries   == {t + ACCESS_TOKEN_EXPIRE_MINUTES : t \in Times}

\* a bearer token: its claims, and whether its signature verifies under
\* SECRET_KEY; NoToken is a request without an Authorization header
Tokens  == [sub : TokenSubs, role : TokenRoles, exp : Expiries, signed : BOOLEAN]
NoToken == [signed |-> FALSE]
Credentials == Tokens \cup {NoToken}

\* dates are counted in days, like CAST(... AS DATE) of a time in minutes
cast_date(minutes) == minutes \div 1440
Dates  == {cast_date(t) : t \in Times}
NoDate == -1                        \* an optional date parameter left out

NoBody == [id |-> 0]
Idle   == [pc |-> "idle"]

VARIABLES
    menu_items,     \* id -> [name, price, is_available, updated_at]
    reservations,   \* id -> [status, reservation_date, number_of_guests, updated_at]
    orders,         \* id -> [reservation_id, total_amount]
    order_items,    \* the rows of order_items, in insertion order
    menu_seq,       \* ids handed out so far, per table
    reservation_seq,
    order_seq,
    reply,          \* [op, code, body] of the last response
    requests,       \* per process: the create_order request in flight, or Idle
    users,          \* username -> [role, hashed_password]
    clock,          \* the time, in minutes
    revenue_records \* the rows of revenue_records

db   == <<menu_items, reservations, orders, order_items,
          menu_seq, reservation_seq, order_seq>>
vars == <<menu_items, reservations, orders, order_items,
          menu_seq, reservation_seq, order_seq, reply, requests,
          users, clock, revenue_records>>

\* date.today()
today == cast_date(clock)

\* the body of a reservation request: a table for two, booked for today
ReservationCreate ==
    [status : Statuses, reservation_date : {today}, number_of_guests : {2}]

\* the body of a menu request: the order workflow depends on the price alone
MenuItemCreate == [name : {"A"}, price : Prices, is_available : {TRUE}]

\* model_dump(exclude_unset=True): the fields of the body that were supplied
Supplied(body, fields) == [f \in fields |-> body[f]]

\* partial updates over every column
MenuItemUpdateFull ==
    {Supplied(body, fields) :
        body \in [name : {"A", "B"}, price : Prices, is_available : BOOLEAN],
        fields \in SUBSET {"name", "price", "is_available"}}
ReservationUpdateFull ==
    {Supplied(body, fields) :
        body \in [status : {"confirmed", "cancelled"}, reservation_date : Dates,
                  number_of_guests : {2, 4}],
        fields \in SUBSET {"status", "reservation_date", "number_of_guests"}}

\* the columns an update may set
MenuColumns        == {"name", "price", "is_available"}
ReservationColumns == {"status", "reservation_date", "number_of_guests"}

\* ------------------------------------------------------------- helpers
Without(f, k) == [x \in DOMAIN f \ {k} |-> f[x]]

RECURSIVE SumSubtotals(_)
SumSubtotals(rows) ==
    IF rows = <<>> THEN 0
    ELSE Head(rows).subtotal + SumSubtotals(Tail(rows))

\* SELECT ... FROM order_items WHERE order_id = :order_id
ItemsOf(items, order_id) == SelectSeq(items, LAMBDA row : row.order_id = order_id)

\* The committed store, as a value.
Now ==
    [menu_items      |-> menu_items,
     reservations    |-> reservations,
     orders          |-> orders,
     order_items     |-> order_items,
     menu_seq        |-> menu_seq,
     reservation_seq |-> reservation_seq,
     order_seq       |-> order_seq,
     users           |-> users]

\* What a handler leaves behind: the committed store, the status code and
\* the response body.
Result(store, code, body) == [store |-> store, code |-> code, body |-> body]

\* passlib's bcrypt context: a hash verifies exactly the password it was
\* made from
get_password_hash(password) == <<"bcrypt", password>>

verify_password(plain_password, hashed_password) ==
    hashed_password = <<"bcrypt", plain_password>>

\* the admin user the seed script creates
SeedUsers ==
    "admin" :> [role |-> "admin",
                hashed_password |-> get_password_hash("adminpassword")]

Init ==
    /\ menu_items = <<>>
    /\ reservations = <<>>
    /\ orders = <<>>
    /\ order_items = <<>>
    /\ menu_seq = 0
    /\ reservation_seq = 0
    /\ order_seq = 0
    /\ reply = [op |-> "none", code |-> 0, body |-> NoBody]
    /\ requests = [p \in Procs |-> Idle]
    /\ users = SeedUsers
    /\ clock = 0
    /\ revenue_records = <<>>

\* ---------------------------------------------------------------- menu
\* INSERT ... RETURNING: the row is the request body, stamped by the column
\* default of updated_at
InsertRow(body) == body @@ [updated_at |-> clock]

\* SET clauses that do not depend on the body
set_clauses_all(update_data, columns) == columns

\* the keys of the body that become SET clauses
set_clauses(update_data, columns) == DOMAIN update_data \cap columns

\* an update that writes the default of a field that was not supplied
ApplyUpdateUnset(row, update_data) ==
    [f \in DOMAIN row |->
        IF f \in DOMAIN update_data THEN update_data[f]
        ELSE IF f = "updated_at" THEN clock
        ELSE IF f = "is_available" THEN TRUE
        ELSE IF f = "status" THEN "pending"
        ELSE row[f]]

\* UPDATE ... SET <the supplied fields>, updated_at = NOW()
ApplyUpdate(row, update_data) ==
    [f \in DOMAIN row |->
        IF f \in DOMAIN update_data THEN update_data[f]
        ELSE IF f = "updated_at" THEN clock
        ELSE row[f]]

create_menu_item(menu_item) ==
    Result([Now EXCEPT !.menu_seq = menu_seq + 1,
                       !.menu_items = menu_items
                                      @@ (menu_seq + 1 :> InsertRow(menu_item))],
           201, NoBody)

\* an update that also rewrites the snapshots taken from the menu item
update_menu_item_repricing(menu_item_id, update_data) ==
    IF DOMAIN update_data = {} \/ menu_item_id \notin DOMAIN menu_items
    THEN Result(Now, 400, NoBody)
    ELSE Result([Now EXCEPT
                    !.menu_items[menu_item_id].price = update_data["price"],
                    !.order_items =
                        [i \in 1..Len(order_items) |->
                            IF order_items[i].menu_item_id = menu_item_id
                            THEN [order_items[i] EXCEPT
                                     !.price_at_order = update_data["price"],
                                     !.subtotal = update_data["price"] * order_items[i].quantity]
                            ELSE order_items[i]]],
                200, NoBody)

update_menu_item(menu_item_id, update_data) ==
    IF set_clauses(update_data, MenuColumns) = {}
    THEN Result(Now, 400, NoBody)
    ELSE IF menu_item_id \notin DOMAIN menu_items
    THEN \* the 404 raised inside the try block is caught by
         \* "except Exception" and re-raised as 400
         Result(Now, 400, NoBody)
    ELSE Result([Now EXCEPT !.menu_items[menu_item_id] = ApplyUpdate(@, update_data)],
                200, NoBody)

delete_menu_item(menu_item_id) ==
    IF menu_item_id \notin DOMAIN menu_items
    THEN \* 404 raised inside the try block, re-raised as 500
         Result(Now, 500, NoBody)
    ELSE Result([Now EXCEPT !.menu_items = Without(menu_items, menu_item_id)],
                204, NoBody)

\* -------------------------------------------------------- reservations
create_reservation(reservation) ==
    Result([Now EXCEPT !.reservation_seq = reservation_seq + 1,
                       !.reservations = reservations
                                        @@ (reservation_seq + 1 :> InsertRow(reservation))],
           201, NoBody)

update_reservation(reservation_id, update_data) ==
    IF set_clauses(update_data, ReservationColumns) = {}
    THEN Result(Now, 400, NoBody)
    ELSE IF reservation_id \notin DOMAIN reservations
    THEN \* 404 raised inside the try block, re-raised as 400
         Result(Now, 400, NoBody)
    ELSE Result([Now EXCEPT !.reservations[reservation_id] = ApplyUpdate(@, update_data)],
                200, NoBody)

\* orders.reservation_id REFERENCES reservations: a referenced reservation
\* cannot be deleted (the order is not owned by the reservation)
\* a store in which no order holds a reservation
ReservationReferencedOff(ords, reservation_id) == FALSE

ReservationReferenced(ords, reservation_id) ==
    \E o \in DOMAIN ords : ords[o].reservation_id = reservation_id

delete_reservation(reservation_id) ==
    IF reservation_id \notin DOMAIN reservations
    THEN \* 404 raised inside the try block, re-raised as 500, detail=str(e)
         Result(Now, 500, [detail |-> "404: Reservation not found"])
    ELSE IF ReservationReferenced(orders, reservation_id)
    THEN \* the DELETE raises, rollback, 500, detail=str(e)
         Result(Now, 500, [detail |-> "IntegrityError"])
    ELSE Result([Now EXCEPT !.reservations = Without(reservations, reservation_id)],
                204, NoBody)

\* -------------------------------------------------------------- orders
\* the checks of create_order without the look-up of an existing order
ReservationCheckNoConflict(res, ords, reservation_id) ==
    IF reservation_id \notin DOMAIN res THEN 404
    ELSE IF res[reservation_id].status # "completed" THEN 400
    ELSE 0

\* the checks of create_order without the test of the status
ReservationCheckAnyStatus(res, ords, reservation_id) ==
    IF reservation_id \notin DOMAIN res THEN 404
    ELSE IF \E o \in DOMAIN ords : ords[o].reservation_id = reservation_id THEN 409
    ELSE 0

\* steps 1 and 2 of create_order: 0 when both checks pass
ReservationCheck(res, ords, reservation_id) ==
    IF reservation_id \notin DOMAIN res THEN 404
    ELSE IF res[reservation_id].status # "completed" THEN 400
    ELSE IF \E o \in DOMAIN ords : ords[o].reservation_id = reservation_id THEN 409
    ELSE 0

\* orders without the constraint on reservation_id
UniqueViolationOff(ords, reservation_id) == FALSE

\* UNIQUE (reservation_id) on orders
UniqueViolation(ords, reservation_id) ==
    \E o \in DOMAIN ords : ords[o].reservation_id = reservation_id

\* step 3: INSERT INTO orders (reservation_id), total_amount defaults to 0
InsertOrder(ords, order_id, reservation_id) ==
    ords @@ (order_id :> [reservation_id |-> reservation_id, total_amount |-> 0])

\* a subtotal that ignores the quantity
SubtotalUnitPrice(menu_item_price, quantity) == menu_item_price

Subtotal(menu_item_price, quantity) == menu_item_price * quantity

MenuItemMissing(menu, items) ==
    \E i \in 1..Len(items) : items[i].menu_item_id \notin DOMAIN menu

\* step 4: the rows order_items_to_insert
OrderItemsToInsert(menu, order_id, items) ==
    [i \in 1..Len(items) |->
        [order_id       |-> order_id,
         menu_item_id   |-> items[i].menu_item_id,
         quantity       |-> items[i].quantity,
         price_at_order |-> menu[items[i].menu_item_id].price,
         subtotal       |-> Subtotal(menu[items[i].menu_item_id].price,
                                     items[i].quantity)]]

\* step 6: UPDATE orders SET total_amount
SetTotal(ords, order_id, total_amount) ==
    [ords EXCEPT ![order_id].total_amount = total_amount]

OrderResponse(ords, order_id, items) ==
    [id             |-> order_id,
     reservation_id |-> ords[order_id].reservation_id,
     total_amount   |-> ords[order_id].total_amount,
     items          |-> items]

\* The handler run without another request in between.
create_order(reservation_id, items) ==
    LET code == ReservationCheck(reservations, orders, reservation_id)
        new_order_id == order_seq + 1
        shell == InsertOrder(orders, new_order_id, reservation_id)
        rows  == OrderItemsToInsert(menu_items, new_order_id, items)
        final == SetTotal(shell, new_order_id, SumSubtotals(rows))
    IN  IF code # 0
        THEN Result(Now, code, NoBody)
        ELSE IF UniqueViolation(orders, reservation_id)
        THEN \* the INSERT raises, "except Exception": rollback, 500
             Result(Now, 500, NoBody)
        ELSE IF MenuItemMissing(menu_items, items)
        THEN \* the order row was committed before the items loop; the
             \* rollback has nothing left to undo
             Result([Now EXCEPT !.order_seq = new_order_id, !.orders = shell],
                    404, NoBody)
        ELSE Result([Now EXCEPT !.order_seq = new_order_id,
                                !.orders = final,
                                !.order_items = order_items \o rows],
                    201, OrderResponse(final, new_order_id, rows))

get_order(order_id) ==
    IF order_id \notin DOMAIN orders
    THEN Result(Now, 404, NoBody)
    ELSE Result(Now, 200,
                OrderResponse(orders, order_id, ItemsOf(order_items, order_id)))

\* a DELETE of the order that leaves its order items in place
CascadeOrderItemsOff(items, order_id) == items

\* order_items.order_id REFERENCES orders ON DELETE CASCADE
CascadeOrderItems(items, order_id) ==
    SelectSeq(items, LAMBDA row : row.order_id # order_id)

delete_order(order_id) ==
    IF order_id \notin DOMAIN orders
    THEN \* 404 raised inside the try block, re-raised as 500
         Result(Now, 500, NoBody)
    ELSE Result([Now EXCEPT !.orders = Without(orders, order_id),
                            !.order_items = CascadeOrderItems(order_items, order_id)],
                204, NoBody)

\* update_order without the comparison of the reservation ids
ReservationMismatchOff(ords, order_id, reservation_id) == FALSE

\* step 1 of update_order: the supplied reservation_id is not the stored one
ReservationMismatch(ords, order_id, reservation_id) ==
    ords[order_id].reservation_id # reservation_id

\* update_order without the DELETE of the old items
DeleteOrderItemsNone(items, order_id) == items

\* step 2 of update_order: DELETE FROM order_items WHERE order_id = :order_id
DeleteOrderItems(items, order_id) ==
    SelectSeq(items, LAMBDA row : row.order_id # order_id)

update_order(order_id, reservation_id, items) ==
    LET kept  == DeleteOrderItems(order_items, order_id)
        rows  == OrderItemsToInsert(menu_items, order_id, items)
        final == SetTotal(orders, order_id, SumSubtotals(rows))
    IN  IF order_id \notin DOMAIN orders
        THEN Result(Now, 404, NoBody)
        ELSE IF ReservationMismatch(orders, order_id, reservation_id)
        THEN Result(Now, 400, NoBody)
        ELSE IF MenuItemMissing(menu_items, items)
        THEN \* the DELETE of the old items was committed before the loop
             Result([Now EXCEPT !.order_items = kept], 404, NoBody)
        ELSE Result([Now EXCEPT !.orders = final, !.order_items = kept \o rows],
                    200, OrderResponse(final, order_id, rows))

\* ------------------------------------------------------- authentication
\* what a look-up returns when no row matches
NoUser == [username |-> None]

get_user(username) ==
    IF username \in DOMAIN users THEN users[username] ELSE NoUser

authenticate_user(username, password) ==
    LET user_in_db == get_user(username)
    IN  IF user_in_db = NoUser THEN NoUser
        ELSE IF ~verify_password(password, user_in_db.hashed_password) THEN NoUser
        ELSE [username |-> username, role |-> user_in_db.role]

\* the token is signed with SECRET_KEY and expires after the default lifetime
create_access_token(data) ==
    [sub    |-> data.sub,
     role   |-> data.role,
     exp    |-> clock + ACCESS_TOKEN_EXPIRE_MINUTES,
     signed |-> TRUE]

\* a decoding that does not look at the expiry
jwt_decode_any_age(token) == token.signed

\* jwt.decode: the signature verifies and the token has not expired
jwt_decode(token) == token.signed /\ token.exp >= clock

Unauthorized == [code |-> 401]
Forbidden    == [code |-> 403]

get_current_user(token) ==
    IF token = NoToken
    THEN Unauthorized               \* oauth2_scheme: "Not authenticated"
    ELSE IF ~jwt_decode(token)
    THEN Unauthorized               \* JWTError
    ELSE IF token.sub = None \/ token.role = None
    THEN Unauthorized
    ELSE IF token.role \notin Roles
    THEN [code |-> 500]             \* TokenData refuses the role: a validation
                                    \* error, which is no JWTError
    ELSE IF get_user(token.sub) = NoUser
    THEN Unauthorized
    ELSE IF get_user(token.sub).role # token.role
    THEN Unauthorized
    ELSE [code |-> 0, username |-> token.sub, role |-> get_user(token.sub).role]

\* the dependency without the test of the role
get_current_admin_user_any(token) == get_current_user(token)

get_current_admin_user(token) ==
    LET current_user == get_current_user(token)
    IN  IF current_user.code # 0 THEN current_user
        ELSE IF current_user.role # "admin" THEN Forbidden
        ELSE current_user

\* a login that tells an unknown username from a wrong password
login_naming_the_cause(username, password) ==
    IF get_user(username) = NoUser
    THEN Result(Now, 401, [detail |-> "Unknown username"])
    ELSE IF authenticate_user(username, password) = NoUser
    THEN Result(Now, 401, [detail |-> "Incorrect password"])
    ELSE Result(Now, 200,
                [access_token |-> create_access_token(
                                     [sub |-> username, role |-> get_user(username).role]),
                 user_role |-> get_user(username).role])

login_for_access_token(username, password) ==
    LET user == authenticate_user(username, password)
    IN  IF user = NoUser
        THEN Result(Now, 401, [detail |-> "Incorrect username or password"])
        ELSE Result(Now, 200,
                    [access_token |-> create_access_token(
                                         [sub |-> user.username, role |-> user.role]),
                     user_role |-> user.role])

create_user(username, password, role) ==
    IF username \in DOMAIN users
    THEN \* the 400 raised inside the try block is caught by
         \* "except Exception" and re-raised as 500
         Result(Now, 500, NoBody)
    ELSE Result([Now EXCEPT !.users =
                    users @@ (username :>
                                [role |-> role,
                                 hashed_password |-> get_password_hash(password)])],
                201, [username |-> username, role |-> role])

\* Depends(get_current_admin_user): the handler runs only for an admin
AdminOnly(token, result) ==
    LET current_admin == get_current_admin_user(token)
    IN  IF current_admin.code # 0
        THEN Result(Now, current_admin.code, NoBody)
        ELSE result

\* ----------------------------------------------------------------- reads
\* The listings return the matching rows; the order of the rows in the
\* response is left out.
get_all_menu_items == Result(Now, 200, [rows |-> menu_items])

get_menu_item(menu_item_id) ==
    IF menu_item_id \notin DOMAIN menu_items
    THEN Result(Now, 404, NoBody)
    ELSE Result(Now, 200, [rows |-> menu_items[menu_item_id]])

get_all_reservations(reservation_date) ==
    Result(Now, 200,
           [rows |-> {r \in DOMAIN reservations :
                         \/ reservation_date = NoDate
                         \/ reservations[r].reservation_date = reservation_date}])

get_todays_reservations ==
    Result(Now, 200,
           [rows |-> {r \in DOMAIN reservations :
                         reservations[r].reservation_date = today}])

get_order_by_reservation_id(reservation_id) ==
    LET found == {o \in DOMAIN orders : orders[o].reservation_id = reservation_id}
    IN  IF found = {}
        THEN Result(Now, 200, NoBody)       \* "return None"
        ELSE LET order_id == CHOOSE o \in found : TRUE
             IN  Result(Now, 200,
                        OrderResponse(orders, order_id, ItemsOf(order_items, order_id)))

get_current_user_info(token) ==
    LET current_user == get_current_user(token)
    IN  IF current_user.code # 0
        THEN Result(Now, current_user.code, NoBody)
        ELSE Result(Now, 200, current_user)

\* --------------------------------------------------------------- reports
\* a range test that leaves out the last day
InRangeOpenEnd(date, start_date, end_date) ==
    /\ (start_date # NoDate => date >= start_date)
    /\ (end_date # NoDate => date < end_date)

\* the WHERE clauses of the reports: each bound applies only when supplied
InRange(date, start_date, end_date) ==
    /\ (start_date # NoDate => date >= start_date)
    /\ (end_date # NoDate => date <= end_date)

RevenueRecordsIn(start_date, end_date) ==
    SelectSeq(revenue_records,
              LAMBDA row : InRange(cast_date(row.record_date),
                                   start_date, end_date))

RECURSIVE SumAmounts(_)
SumAmounts(rows) ==
    IF rows = <<>> THEN 0 ELSE Head(rows).amount + SumAmounts(Tail(rows))

\* SELECT SUM(amount): one value, or NULL (no value) when no row matches
SqlSum(rows) == IF rows = <<>> THEN <<>> ELSE <<SumAmounts(rows)>>

get_all_revenue_records(start_date, end_date) ==
    LET rows == RevenueRecordsIn(start_date, end_date)
    IN  Result(Now, 200, [rows |-> {rows[i] : i \in 1..Len(rows)}])

get_total_revenue_summary(start_date, end_date) ==
    LET total_revenue == SqlSum(RevenueRecordsIn(start_date, end_date))
    IN  Result(Now, 200,
               [total_revenue |-> IF total_revenue # <<>> THEN total_revenue[1] ELSE 0])

\* the collation of the names
Alphabet == <<"A", "B", "C">>
NameRank(name) == CHOOSE i \in 1..Len(Alphabet) : Alphabet[i] = name

LIMIT == 20

\* order_items JOIN menu_items JOIN orders JOIN reservations WHERE ...
JoinedItems(start_date, end_date) ==
    SelectSeq(order_items,
              LAMBDA oi :
                 /\ oi.menu_item_id \in DOMAIN menu_items
                 /\ oi.order_id \in DOMAIN orders
                 /\ orders[oi.order_id].reservation_id \in DOMAIN reservations
                 /\ InRange(reservations[orders[oi.order_id].reservation_id]
                               .reservation_date,
                            start_date, end_date))

RECURSIVE SumQuantity(_, _)
SumQuantity(rows, menu_item_id) ==
    IF rows = <<>> THEN 0
    ELSE (IF Head(rows).menu_item_id = menu_item_id THEN Head(rows).quantity ELSE 0)
         + SumQuantity(Tail(rows), menu_item_id)

\* GROUP BY oi.menu_item_id, mi.name, mi.category, mi.price
GroupRow(rows, menu_item_id) ==
    [menu_item_id   |-> menu_item_id,
     name           |-> menu_items[menu_item_id].name,
     price          |-> menu_items[menu_item_id].price,
     total_quantity |-> SumQuantity(rows, menu_item_id)]

\* an ordering by quantity alone
SortsBeforeByQuantity(a, b) == a.total_quantity > b.total_quantity

\* ORDER BY total_quantity DESC, mi.name ASC
SortsBefore(a, b) ==
    \/ a.total_quantity > b.total_quantity
    \/ /\ a.total_quantity = b.total_quantity
       /\ NameRank(a.name) < NameRank(b.name)

\* The groups in the order the scan produces them: rows that the ORDER BY
\* does not tell apart keep that order, which SQL leaves open.
ScanOrders == {"forward", "backward"}

Groups(rows, scan) ==
    LET ids == {rows[i].menu_item_id : i \in 1..Len(rows)}
        n   == menu_seq
        asc == SelectSeq([i \in 1..n |-> i], LAMBDA m : m \in ids)
        k   == Len(asc)
    IN  [i \in 1..k |->
            GroupRow(rows, IF scan = "forward" THEN asc[i] ELSE asc[k + 1 - i])]

\* stable insertion of a row into a sorted sequence
RECURSIVE InsertSorted(_, _)
InsertSorted(sorted, row) ==
    IF sorted = <<>> THEN <<row>>
    ELSE IF SortsBefore(row, Head(sorted)) THEN <<row>> \o sorted
    ELSE <<Head(sorted)>> \o InsertSorted(Tail(sorted), row)

RECURSIVE Sorted(_)
Sorted(rows) ==
    IF rows = <<>> THEN <<>>
    ELSE InsertSorted(Sorted(SubSeq(rows, 1, Len(rows) - 1)), rows[Len(rows)])

Limit(rows, n) == SubSeq(rows, 1, IF Len(rows) < n THEN Len(rows) ELSE n)

get_most_sold_items(start_date, end_date, scan) ==
    Result(Now, 200,
           [rows |-> Limit(Sorted(Groups(JoinedItems(start_date, end_date), scan)),
                           LIMIT)])

\* --------------------------------------------------------------- routes
\* Each route behind the dependencies its signature declares.
route_create_user(token, username, password, role) ==
    AdminOnly(token, create_user(username, password, role))
route_get_all_menu_items(token) == get_all_menu_items
route_get_menu_item(token, menu_item_id) == get_menu_item(menu_item_id)
route_create_menu_item(token, menu_item) ==
    AdminOnly(token, create_menu_item(menu_item))
route_update_menu_item(token, menu_item_id, update_data) ==
    AdminOnly(token, update_menu_item(menu_item_id, update_data))
route_delete_menu_item(token, menu_item_id) ==
    AdminOnly(token, delete_menu_item(menu_item_id))
route_create_reservation(token, reservation) == create_reservation(reservation)
\* the listing of the reservations without the dependency on the admin
route_get_all_reservations_open(token, reservation_date) ==
    get_all_reservations(reservation_date)

route_get_all_reservations(token, reservation_date) ==
    AdminOnly(token, get_all_reservations(reservation_date))
route_get_todays_reservations(token) == AdminOnly(token, get_todays_reservations)
route_update_reservation(token, reservation_id, update_data) ==
    AdminOnly(token, update_reservation(reservation_id, update_data))
route_delete_reservation(token, reservation_id) ==
    AdminOnly(token, delete_reservation(reservation_id))
route_create_order(token, reservation_id, items) ==
    AdminOnly(token, create_order(reservation_id, items))
route_get_order(token, order_id) == AdminOnly(token, get_order(order_id))
route_delete_order(token, order_id) == AdminOnly(token, delete_order(order_id))
route_get_order_by_reservation_id(token, reservation_id) ==
    AdminOnly(token, get_order_by_reservation_id(reservation_id))
route_update_order(token, order_id, reservation_id, items) ==
    AdminOnly(token, update_order(order_id, reservation_id, items))
route_get_all_revenue_records(token, start_date, end_date) ==
    AdminOnly(token, get_all_revenue_records(start_date, end_date))
route_get_total_revenue_summary(token, start_date, end_date) ==
    AdminOnly(token, get_total_revenue_summary(start_date, end_date))
route_get_most_sold_items(token, start_date, end_date, scan) ==
    AdminOnly(token, get_most_sold_items(start_date, end_date, scan))

\* ------------------------------------------------------------- actions
\* A request handled from start to end: the store becomes what the handler
\* committed and the response is sent.  The sequences stay within the bounds.
Handle(op, result) ==
    \E r \in {result} :
        /\ r.store.menu_seq <= Cardinality(MenuIds)
        /\ r.store.reservation_seq <= Cardinality(ReservationRows)
        /\ r.store.order_seq <= MaxOrders
        /\ menu_items' = r.store.menu_items
        /\ reservations' = r.store.reservations
        /\ orders' = r.store.orders
        /\ order_items' = r.store.order_items
        /\ menu_seq' = r.store.menu_seq
        /\ reservation_seq' = r.store.reservation_seq
        /\ order_seq' = r.store.order_seq
        /\ users' = r.store.users
        /\ reply' = [op |-> op, code |-> r.code, body |-> r.body]
        /\ UNCHANGED <<requests, clock, revenue_records>>

CreateMenuItem == \E menu_item \in MenuItemCreate :
    Handle("create_menu_item", create_menu_item(menu_item))
UpdateMenuItem == \E id \in MenuIds, data \in MenuItemUpdate :
    Handle("update_menu_item", update_menu_item(id, data))
DeleteMenuItem == \E id \in MenuIds :
    Handle("delete_menu_item", delete_menu_item(id))
CreateReservation == \E reservation \in ReservationCreate :
    Handle("create_reservation", create_reservation(reservation))
UpdateReservation == \E id \in ReservationIds, data \in ReservationUpdate :
    Handle("update_reservation", update_reservation(id, data))
DeleteReservation == \E id \in ReservationIds :
    Handle("delete_reservation", delete_reservation(id))
CreateOrder == \E order_create \in OrderRequests :
    Handle("create_order",
           create_order(order_create.reservation_id, order_create.items))
GetOrder == \E oid \in OrderIds :
    Handle("get_order", get_order(oid))
DeleteOrder == \E oid \in OrderIds :
    Handle("delete_order", delete_order(oid))
UpdateOrder == \E oid \in OrderIds, order_update \in OrderRequests :
    Handle("update_order",
           update_order(oid, order_update.reservation_id, order_update.items))

Respond(op, code) == reply' = [op |-> op, code |-> code, body |-> NoBody]

RespondOrder(op, code, body) == reply' = [op |-> op, code |-> code, body |-> body]

\* ------------------------------------- create_order, commit by commit
\* Steps 1 and 2 read; step 3 inserts the order row and commits; steps 4 to
\* 6 price the items, insert them, set the total and commit.  Requests of
\* other sessions can run between these.
create_order_check(p, reservation_id, items) ==
    LET code == ReservationCheck(reservations, orders, reservation_id)
    IN  /\ requests[p] = Idle
        /\ IF code # 0
           THEN /\ Respond("create_order", code)
                /\ UNCHANGED requests
           ELSE /\ requests' = [requests EXCEPT ![p] =
                                   [pc |-> "insert",
                                    reservation_id |-> reservation_id,
                                    items |-> items]]
                /\ UNCHANGED reply
        /\ UNCHANGED <<db, users, clock, revenue_records>>

create_order_insert(p) ==
    LET r == requests[p]
        new_order_id == order_seq + 1
    IN  /\ r.pc = "insert"
        /\ IF UniqueViolation(orders, r.reservation_id)
           THEN \* the INSERT raises, "except Exception": rollback, 500
                /\ Respond("create_order", 500)
                /\ requests' = [requests EXCEPT ![p] = Idle]
                /\ UNCHANGED <<orders, order_seq>>
           ELSE /\ order_seq < MaxOrders
                /\ order_seq' = new_order_id
                /\ orders' = InsertOrder(orders, new_order_id, r.reservation_id)
                /\ requests' = [requests EXCEPT ![p] =
                                   [pc |-> "items",
                                    reservation_id |-> r.reservation_id,
                                    order_id |-> new_order_id,
                                    items |-> r.items]]
                /\ UNCHANGED reply
        /\ UNCHANGED <<menu_items, reservations, order_items,
                       menu_seq, reservation_seq, users, clock, revenue_records>>

create_order_items(p) ==
    LET r == requests[p]
        rows == OrderItemsToInsert(menu_items, r.order_id, r.items)
    IN  /\ r.pc = "items"
        /\ requests' = [requests EXCEPT ![p] = Idle]
        /\ IF MenuItemMissing(menu_items, r.items)
           THEN /\ Respond("create_order", 404)
                /\ UNCHANGED <<orders, order_items>>
           ELSE IF r.order_id \notin DOMAIN orders
           THEN \* the order was deleted meanwhile: the INSERT of the items
                \* raises, or the UPDATE returns no row and indexing it raises
                /\ Respond("create_order", 500)
                /\ UNCHANGED <<orders, order_items>>
           ELSE /\ order_items' = order_items \o rows
                /\ orders' = SetTotal(orders, r.order_id, SumSubtotals(rows))
                /\ RespondOrder("create_order", 201,
                                OrderResponse(orders', r.order_id, rows))
        /\ UNCHANGED <<menu_items, reservations,
                       menu_seq, reservation_seq, order_seq,
                       users, clock, revenue_records>>

Next ==
    \/ CreateMenuItem
    \/ UpdateMenuItem
    \/ DeleteMenuItem
    \/ CreateReservation
    \/ UpdateReservation
    \/ DeleteReservation
    \/ CreateOrder
    \/ GetOrder
    \/ DeleteOrder
    \/ UpdateOrder

Spec == Init /\ [][Next]_vars

\* Concurrent order creation over a populated store: two menu items, one
\* completed reservation.
InitConc ==
    /\ menu_items = (1 :> [name |-> "A", price |-> 500,
                           is_available |-> TRUE, updated_at |-> 0])
                    @@ (2 :> [name |-> "B", price |-> 1250,
                              is_available |-> TRUE, updated_at |-> 0])
    /\ reservations = (1 :> [status |-> "completed", reservation_date |-> 0,
                             number_of_guests |-> 2, updated_at |-> 0])
    /\ orders = <<>>
    /\ order_items = <<>>
    /\ menu_seq = 2
    /\ reservation_seq = 1
    /\ order_seq = 0
    /\ reply = [op |-> "none", code |-> 0, body |-> NoBody]
    /\ requests = [p \in Procs |-> Idle]
    /\ users = SeedUsers
    /\ clock = 0
    /\ revenue_records = <<>>

CreateOrderCheck == \E p \in Procs, rid \in ReservationIds, items \in ShortLists :
    create_order_check(p, rid, items)
CreateOrderInsert == \E p \in Procs : create_order_insert(p)
CreateOrderItems == \E p \in Procs : create_order_items(p)

NextConc ==
    \/ CreateOrderCheck
    \/ CreateOrderInsert
    \/ CreateOrderItems
    \/ DeleteOrder
    \/ GetOrder
    \/ DeleteMenuItem
    \/ UpdateReservation

SpecConc == InitConc /\ [][NextConc]_vars

\* ------------------------------------------- requests with credentials
\* The routes called with and without tokens, over a store with two menu
\* items, while time passes and users are added.
InitAuth ==
    /\ menu_items = (1 :> [name |-> "A", price |-> 500,
                           is_available |-> TRUE, updated_at |-> 0])
                    @@ (2 :> [name |-> "B", price |-> 1250,
                              is_available |-> TRUE, updated_at |-> 0])
    /\ reservations = <<>>
    /\ orders = <<>>
    /\ order_items = <<>>
    /\ menu_seq = 2
    /\ reservation_seq = 0
    /\ order_seq = 0
    /\ reply = [op |-> "none", code |-> 0, body |-> NoBody]
    /\ requests = [p \in Procs |-> Idle]
    /\ users = SeedUsers
    /\ clock = 0
    /\ revenue_records = <<>>

\* the tokens clients present: what a login can have issued, and no token
PresentedTokens ==
    {t \in Tokens : t.signed /\ t.sub # None /\ t.role \in Roles} \cup {NoToken}

Tick ==
    /\ \E t \in Times :
          /\ t > clock
          /\ \A u \in Times : u > clock => t <= u
          /\ clock' = t
    /\ UNCHANGED <<db, reply, requests, users, revenue_records>>

Login == \E username \in Usernames, password \in Passwords :
    Handle("login_for_access_token", login_for_access_token(username, password))
PostUser == \E token \in PresentedTokens, role \in Roles :
    Handle("create_user", route_create_user(token, "guest", "secret", role))
GetMe == \E token \in PresentedTokens :
    Handle("get_current_user_info", get_current_user_info(token))
GetMenu == \E token \in PresentedTokens :
    Handle("get_all_menu_items", route_get_all_menu_items(token))
PostReservation ==
    \E token \in PresentedTokens, status \in {"pending", "completed"} :
       Handle("create_reservation",
              route_create_reservation(token,
                 [status |-> status, reservation_date |-> today,
                  number_of_guests |-> 2]))
GetReservations == \E token \in PresentedTokens :
    Handle("get_all_reservations", route_get_all_reservations(token, NoDate))
PutMenu == \E token \in PresentedTokens :
    Handle("update_menu_item",
           route_update_menu_item(token, 1, [price |-> 1250]))
PostOrder == \E token \in PresentedTokens, rid \in ReservationIds :
    Handle("create_order",
           route_create_order(token, rid, <<[menu_item_id |-> 1, quantity |-> 1]>>))
GetRevenueSummary == \E token \in PresentedTokens :
    Handle("get_total_revenue_summary",
           route_get_total_revenue_summary(token, NoDate, NoDate))
GetMostSold == \E token \in PresentedTokens :
    Handle("get_most_sold_items",
           route_get_most_sold_items(token, NoDate, NoDate, "forward"))

NextAuth ==
    \/ Tick
    \/ Login
    \/ PostUser
    \/ GetMe
    \/ GetMenu
    \/ PostReservation
    \/ GetReservations
    \/ PutMenu
    \/ PostOrder
    \/ GetRevenueSummary
    \/ GetMostSold

SpecAuth == InitAuth /\ [][NextAuth]_vars

\* ------------------------------------------------------- partial updates
\* One menu item and one reservation, edited field by field while time
\* passes.
InitEdit ==
    /\ menu_items \in {1 :> row : row \in [name : {"A", "B"}, price : Prices,
                                           is_available : BOOLEAN, updated_at : {0}]}
    /\ reservations \in {1 :> row : row \in [status : Statuses,
                                             reservation_date : {0},
                                             number_of_guests : {2},
                                             updated_at : {0}]}
    /\ orders = <<>>
    /\ order_items = <<>>
    /\ menu_seq = 1
    /\ reservation_seq = 1
    /\ order_seq = 0
    /\ reply = [op |-> "none", code |-> 0, body |-> NoBody]
    /\ requests = [p \in Procs |-> Idle]
    /\ users = SeedUsers
    /\ clock = 0
    /\ revenue_records = <<>>

PutMenuItem == \E id \in DOMAIN menu_items, data \in MenuItemUpdateFull :
    Handle("update_menu_item", update_menu_item(id, data))
PutReservation == \E id \in DOMAIN reservations, data \in ReservationUpdateFull :
    Handle("update_reservation", update_reservation(id, data))

NextEdit ==
    \/ Tick
    \/ PutMenuItem
    \/ PutReservation

SpecEdit == InitEdit /\ [][NextEdit]_vars

\* ---------------------------------------------------------------- reports
\* The reports read a store that earlier requests and the revenue trigger
\* have filled; the runs start from such stores and only read.
RecordTimes == {600, 43800, 64800}
RevenueRows == [order_id : OrderIds, amount : {1000, 2500}, record_date : RecordTimes]

ReportReservations ==
    (1 :> [status |-> "completed", reservation_date |-> 0,
           number_of_guests |-> 2, updated_at |-> 0])
    @@ (2 :> [status |-> "completed", reservation_date |-> 30,
              number_of_guests |-> 2, updated_at |-> 0])

\* one order per reservation, its total the sum of its lines
ReportOrders(lines) ==
    [o \in 1..2 |-> [reservation_id |-> o,
                     total_amount   |-> SumSubtotals(ItemsOf(lines, o))]]

OrderLine(order_id, menu_item_id, quantity) ==
    [order_id       |-> order_id,
     menu_item_id   |-> menu_item_id,
     quantity       |-> quantity,
     price_at_order |-> 500,
     subtotal       |-> Subtotal(500, quantity)]

MenuRow(name) ==
    [name |-> name, price |-> 500, is_available |-> TRUE, updated_at |-> 0]

\* the names A, B, C given to the items 1..3 in any order
Namings ==
    {naming \in [1..Len(Alphabet) -> {Alphabet[i] : i \in 1..Len(Alphabet)}] :
        \A i, j \in 1..Len(Alphabet) : naming[i] = naming[j] => i = j}

\* no sales, up to two revenue records
RevenueScenario ==
    /\ revenue_records \in {<<>>} \cup {<<a>> : a \in RevenueRows}
                           \cup {<<a, b>> : a \in RevenueRows, b \in RevenueRows}
    /\ menu_items = <<>>
    /\ menu_seq = 0
    /\ order_items = <<>>

\* three items, each sold on the first day, one of them perhaps sold again
\* on a later day
SalesScenario ==
    /\ revenue_records = <<>>
    /\ menu_seq = Len(Alphabet)
    /\ \E naming \in Namings :
          menu_items = [m \in 1..Len(Alphabet) |-> MenuRow(naming[m])]
    /\ \E first \in [1..Len(Alphabet) -> {5, 10}], again \in 0..Len(Alphabet) :
          order_items =
             [m \in 1..Len(Alphabet) |-> OrderLine(1, m, first[m])]
             \o (IF again = 0 THEN <<>> ELSE <<OrderLine(2, again, 5)>>)

\* more items sold than the report returns
ManyItemsScenario ==
    /\ revenue_records = <<>>
    /\ menu_seq = LIMIT + 1
    /\ menu_items = [m \in 1..(LIMIT + 1) |-> MenuRow(Alphabet[(m % 3) + 1])]
    /\ order_items = [m \in 1..(LIMIT + 1) |->
                         OrderLine(1, m, IF m % 2 = 0 THEN 10 ELSE 5)]

InitReport ==
    /\ reservations = ReportReservations
    /\ reservation_seq = 2
    /\ order_seq = 2
    /\ reply = [op |-> "none", code |-> 0, body |-> NoBody]
    /\ requests = [p \in Procs |-> Idle]
    /\ users = SeedUsers
    /\ clock = 0
    /\ \/ RevenueScenario
       \/ SalesScenario
       \/ ManyItemsScenario
    /\ orders = ReportOrders(order_items)

\* the answer of a handler that only reads
Answer(op, result) ==
    /\ result.store = Now
    /\ reply' = [op |-> op, code |-> result.code, body |-> result.body]
    /\ UNCHANGED <<db, requests, users, clock, revenue_records>>

OptionalDates == Dates \cup {NoDate}

GetRevenueRecords == \E start_date \in OptionalDates, end_date \in OptionalDates :
    Answer("get_all_revenue_records", get_all_revenue_records(start_date, end_date))
GetTotalRevenueSummary == \E start_date \in OptionalDates, end_date \in OptionalDates :
    Answer("get_total_revenue_summary",
           get_total_revenue_summary(start_date, end_date))
GetMostSoldItems ==
    \E start_date \in OptionalDates, end_date \in OptionalDates, scan \in ScanOrders :
        Answer("get_most_sold_items", get_most_sold_items(start_date, end_date, scan))

NextReport ==
    \/ GetRevenueRecords
    \/ GetTotalRevenueSummary
    \/ GetMostSoldItems

SpecReport == InitReport /\ [][NextReport]_vars

\* ================================================================ claims
HasOrder(ords, reservation_id) ==
    \E o \in DOMAIN ords : ords[o].reservation_id = reservation_id

\* the handler result leaves orders and order_items as they are now
Unaffected(result) ==
    /\ result.store.orders = orders
    /\ result.store.order_items = order_items

\* The total a priced list must have, from the menu prices and the
\* requested quantities alone.
RECURSIVE ExpectedTotal(_, _)
ExpectedTotal(menu, items) ==
    IF items = <<>> THEN 0
    ELSE menu[Head(items).menu_item_id].price * Head(items).quantity
         + ExpectedTotal(menu, Tail(items))

\* The rows of order order_id are the lines of items, in order, priced from menu.
PricedFrom(rows, menu, order_id, items) ==
    /\ Len(rows) = Len(items)
    /\ \A i \in 1..Len(items) :
          /\ rows[i].order_id = order_id
          /\ rows[i].menu_item_id = items[i].menu_item_id
          /\ rows[i].quantity = items[i].quantity
          /\ rows[i].price_at_order = menu[items[i].menu_item_id].price
          /\ rows[i].subtotal = rows[i].price_at_order * rows[i].quantity

\* C1: in every committed state, each order's total_amount is the sum of
\* the subtotals of its order items.
C1_TotalIsSumOfSubtotals ==
    \A o \in DOMAIN orders :
        orders[o].total_amount = SumSubtotals(ItemsOf(order_items, o))

\* C2: a create_order that passes the reservation checks and names a missing
\* menu item answers 404 and leaves no order and no order item for the
\* reservation.
C2_CreateOrderRollsBack ==
    [][reply'.op = "create_order" =>
       \A rid \in ReservationIds, items \in ItemLists :
          (/\ ReservationCheck(reservations, orders, rid) = 0
           /\ MenuItemMissing(menu_items, items)
           /\ Handle("create_order", create_order(rid, items)))
          => /\ reply'.code = 404
             /\ ~HasOrder(orders', rid)
             /\ order_items' = order_items]_vars

\* C3: an update_order that fails after its existence and reservation-match
\* checks leaves the order's items and total_amount as they were.
C3_UpdateOrderAllOrNothing ==
    [][(reply'.op = "update_order" /\ reply'.code # 200) =>
       \A oid \in OrderIds, rid \in ReservationIds, items \in ItemLists :
          (/\ oid \in DOMAIN orders
           /\ orders[oid].reservation_id = rid
           /\ Handle("update_order", update_order(oid, rid, items)))
          => /\ ItemsOf(order_items', oid) = ItemsOf(order_items, oid)
             /\ orders'[oid] = orders[oid]]_vars

\* C4: no two orders have the same reservation_id, whatever the interleaving
\* of concurrent create_order requests.
C4_OneOrderPerReservation ==
    \A o1, o2 \in DOMAIN orders :
        orders[o1].reservation_id = orders[o2].reservation_id => o1 = o2

\* a request lost the race: it passed the existence check, and its INSERT was
\* rejected while the winner's order, the only one ever inserted, stands
C4_Witness ==
    /\ reply.op = "create_order"
    /\ reply.code = 500
    /\ order_seq = 1
    /\ DOMAIN orders = {1}
    /\ orders[1].reservation_id \in DOMAIN reservations

\* C5 as stated: create_order for a reservation that already has an order
\* answers 409 and leaves the first order, its items and total unaffected.
C5_SecondOrderConflict ==
    [][reply'.op = "create_order" =>
       \A rid \in ReservationIds, items \in ItemLists :
          (/\ HasOrder(orders, rid)
           /\ Handle("create_order", create_order(rid, items)))
          => /\ reply'.code = 409
             /\ orders' = orders
             /\ order_items' = order_items]_vars

\* C5 amended: create_order for a reservation that already has an order
\* always fails and leaves the first order, its items and total unaffected;
\* the failure is 409 when the reservation still has status completed and
\* 400 when its status is no longer completed.
C5_SecondOrderFails ==
    \A rid \in ReservationIds, items \in ItemLists :
        HasOrder(orders, rid) =>
            LET result == create_order(rid, items)
            IN  /\ result.code \in {400, 404, 409}
                /\ rid \in DOMAIN reservations =>
                      result.code = IF reservations[rid].status = "completed"
                                    THEN 409 ELSE 400
                /\ Unaffected(result)

C5_Witness ==
    /\ reply.op = "create_order"
    /\ reply.code = 409
    /\ \E o \in DOMAIN orders : ItemsOf(order_items, o) # <<>>

\* C6: create_order answers 404 when the reservation is absent and 400 when
\* its status is not completed, creating nothing in both cases; an order is
\* created only for an existing, completed reservation.
C6_OnlyCompletedReservations ==
    \A rid \in ReservationIds, items \in ItemLists :
        LET result == create_order(rid, items)
        IN  /\ rid \notin DOMAIN reservations
               => result.code = 404 /\ Unaffected(result)
            /\ (rid \in DOMAIN reservations
                /\ reservations[rid].status # "completed")
               => result.code = 400 /\ Unaffected(result)
            /\ result.store.orders # orders
               => /\ rid \in DOMAIN reservations
                  /\ reservations[rid].status = "completed"

C6_Witness ==
    /\ reply.op = "create_order"
    /\ reply.code = 400
    /\ \E r \in DOMAIN reservations : reservations[r].status = "no_show"
    /\ orders = <<>>
    /\ order_items = <<>>

\* C7: after a successful create_order the new order has one item per
\* requested line, priced at the menu price of that moment, with subtotal =
\* price_at_order * quantity, and total_amount is the sum of the subtotals.
C7_CreateOrderPrices ==
    \A rid \in ReservationIds, items \in ItemLists :
        LET result == create_order(rid, items)
        IN  result.code = 201 =>
               \E o \in DOMAIN result.store.orders \ DOMAIN orders :
                  /\ result.store.orders[o].reservation_id = rid
                  /\ PricedFrom(ItemsOf(result.store.order_items, o),
                                menu_items, o, items)
                  /\ result.store.orders[o].total_amount
                        = ExpectedTotal(menu_items, items)
                  /\ result.body.total_amount = ExpectedTotal(menu_items, items)

\* lines (12.50, qty 2) and (5.00, qty 1): subtotals 25.00 and 5.00, total 30.00
C7_Witness ==
    /\ reply.op = "create_order"
    /\ reply.code = 201
    /\ \E o \in DOMAIN orders :
          /\ orders[o].total_amount = 3000
          /\ Len(ItemsOf(order_items, o)) = 2
          /\ ItemsOf(order_items, o)[1].price_at_order = 1250
          /\ ItemsOf(order_items, o)[1].quantity = 2
          /\ ItemsOf(order_items, o)[1].subtotal = 2500
          /\ ItemsOf(order_items, o)[2].price_at_order = 500
          /\ ItemsOf(order_items, o)[2].quantity = 1
          /\ ItemsOf(order_items, o)[2].subtotal = 500

\* C8: after a successful update_order the order's items, as get_order
\* reads them, are exactly the new list priced at the current menu prices,
\* none of the old ones, and total_amount is the sum of the new subtotals.
C8_UpdateOrderReplaces ==
    \A oid \in OrderIds, rid \in ReservationIds, items \in ItemLists :
        LET result == update_order(oid, rid, items)
        IN  result.code = 200 =>
               /\ oid \in DOMAIN result.store.orders
               /\ PricedFrom(ItemsOf(result.store.order_items, oid),
                             menu_items, oid, items)
               /\ result.store.orders[oid].total_amount
                     = ExpectedTotal(menu_items, items)
               /\ result.body.items = ItemsOf(result.store.order_items, oid)

\* an update was answered 200 and the order holds one line of 2 x 12.50
C8_Witness ==
    /\ reply.op = "update_order"
    /\ reply.code = 200
    /\ \E o \in DOMAIN orders :
          /\ Len(ItemsOf(order_items, o)) = 1
          /\ ItemsOf(order_items, o) = reply.body.items
          /\ orders[o].total_amount = 2500

\* the handler result keeps the reservation_id of every order it keeps
SameReservation(result) ==
    \A o \in DOMAIN orders \cap DOMAIN result.store.orders :
        result.store.orders[o].reservation_id = orders[o].reservation_id

\* C9: update_order with a reservation_id other than the stored one answers
\* 400 and changes nothing; no handler changes the reservation_id of an order.
C9_NoReparenting ==
    /\ \A oid \in DOMAIN orders, rid \in ReservationIds, items \in ItemLists :
          LET result == update_order(oid, rid, items)
          IN  /\ orders[oid].reservation_id # rid
                    => result.code = 400 /\ result.store = Now
              /\ SameReservation(result)
    /\ \A rid \in ReservationIds, items \in ItemLists :
          SameReservation(create_order(rid, items))
    /\ \A oid \in OrderIds :
          SameReservation(delete_order(oid)) /\ SameReservation(get_order(oid))
    /\ \A id \in MenuIds, data \in MenuItemUpdate :
          SameReservation(update_menu_item(id, data))
    /\ \A id \in MenuIds : SameReservation(delete_menu_item(id))
    /\ \A menu_item \in MenuItemCreate :
          SameReservation(create_menu_item(menu_item))
    /\ \A reservation \in ReservationCreate :
          SameReservation(create_reservation(reservation))
    /\ \A id \in ReservationIds, data \in ReservationUpdate :
          SameReservation(update_reservation(id, data))
    /\ \A id \in ReservationIds : SameReservation(delete_reservation(id))

C9_Witness ==
    /\ reply.op = "update_order"
    /\ reply.code = 400
    /\ \E o \in DOMAIN orders : ItemsOf(order_items, o) # <<>>

\* C10: update_menu_item leaves the price_at_order and subtotal of every
\* order item and the total_amount of every order unchanged.
C10_PriceSnapshotFrozen ==
    \A id \in MenuIds, data \in MenuItemUpdate :
        Unaffected(update_menu_item(id, data))

\* a price was changed under an order item that keeps the old one
C10_Witness ==
    /\ reply.op = "update_menu_item"
    /\ reply.code = 200
    /\ \E i \in 1..Len(order_items) :
          /\ order_items[i].menu_item_id \in DOMAIN menu_items
          /\ menu_items[order_items[i].menu_item_id].price
                # order_items[i].price_at_order
          /\ order_items[i].order_id \in DOMAIN orders
          /\ orders[order_items[i].order_id].total_amount
                = SumSubtotals(ItemsOf(order_items, order_items[i].order_id))

\* C11: delete_order on an id that matches no order answers 404 and changes
\* no stored data; on an existing id it removes the order and answers 204.
C11_DeleteOrderNotFound ==
    [][reply'.op = "delete_order" =>
       \A oid \in OrderIds :
          Handle("delete_order", delete_order(oid))
          => IF oid \in DOMAIN orders
             THEN reply'.code = 204 /\ oid \notin DOMAIN orders'
             ELSE reply'.code = 404 /\ UNCHANGED db]_vars

\* C12: a successful delete_order leaves no order item of the deleted order,
\* and in every reachable state each order item belongs to an existing order.
C12_NoOrphanItems ==
    /\ \A i \in 1..Len(order_items) : order_items[i].order_id \in DOMAIN orders
    /\ \A oid \in OrderIds :
          LET result == delete_order(oid)
          IN  result.code = 204 =>
                 /\ ItemsOf(result.store.order_items, oid) = <<>>
                 /\ \A i \in 1..Len(result.store.order_items) :
                       result.store.order_items[i].order_id
                          \in DOMAIN result.store.orders

\* the only order ever created, priced from the menu, has been deleted and no
\* order item is left
C12_Witness ==
    /\ reply.op = "delete_order"
    /\ reply.code = 204
    /\ order_seq = 1
    /\ menu_items # <<>>
    /\ orders = <<>>
    /\ order_items = <<>>

\* the request was refused for the role and nothing was written
Denied(result) == result.code = 403 /\ result.store = Now

\* C13: every admin-only operation called with a valid token whose role is
\* not admin answers 403 and leaves all stored data unchanged.
C13_AdminOnlyForbidden ==
    \A token \in Credentials :
        (get_current_user(token).code = 0 /\ get_current_user(token).role # "admin")
        =>
        /\ \A menu_item \in MenuItemCreate :
              Denied(route_create_menu_item(token, menu_item))
        /\ \A id \in MenuIds, data \in MenuItemUpdate :
              Denied(route_update_menu_item(token, id, data))
        /\ \A id \in MenuIds : Denied(route_delete_menu_item(token, id))
        /\ \A id \in ReservationIds, data \in ReservationUpdate :
              Denied(route_update_reservation(token, id, data))
        /\ \A id \in ReservationIds :
              /\ Denied(route_delete_reservation(token, id))
              /\ Denied(route_get_order_by_reservation_id(token, id))
        /\ \A rid \in ReservationIds, items \in ItemLists :
              /\ Denied(route_create_order(token, rid, items))
              /\ \A oid \in OrderIds :
                    Denied(route_update_order(token, oid, rid, items))
        /\ \A oid \in OrderIds :
              /\ Denied(route_get_order(token, oid))
              /\ Denied(route_delete_order(token, oid))
        /\ \A start_date, end_date \in Dates \cup {NoDate} :
              /\ Denied(route_get_all_revenue_records(token, start_date, end_date))
              /\ Denied(route_get_total_revenue_summary(token, start_date, end_date))
              /\ \A scan \in ScanOrders :
                    Denied(route_get_most_sold_items(token, start_date, end_date, scan))
        /\ \A username \in Usernames, password \in Passwords, role \in Roles :
              Denied(route_create_user(token, username, password, role))

\* a customer asked for an order on a completed reservation and was refused
C13_Witness ==
    /\ reply.op = "create_order"
    /\ reply.code = 403
    /\ "guest" \in DOMAIN users
    /\ users["guest"].role = "customer"
    /\ \E r \in DOMAIN reservations : reservations[r].status = "completed"
    /\ orders = <<>>

\* the caller is not an admin: no token, a token that is not accepted, or the
\* token of a customer
NotAdmin(token) == get_current_admin_user(token).code # 0

\* the request was turned away by the dependencies (401, 403, or 500 for a
\* signed token whose role is no role of the application) and wrote nothing
Refused(result) == result.code \in {401, 403, 500} /\ result.store = Now

\* C14 as stated: reservation creation, menu read and reservation read
\* succeed for a caller who is not an admin.
C14_ReadsOpen ==
    [][\A token \in PresentedTokens :
          NotAdmin(token) =>
             /\ Handle("get_all_menu_items", route_get_all_menu_items(token))
                   => reply'.code = 200
             /\ \A status \in {"pending", "completed"} :
                   Handle("create_reservation",
                          route_create_reservation(token,
                             [status |-> status, reservation_date |-> today,
                              number_of_guests |-> 2]))
                   => reply'.code = 201
             /\ Handle("get_all_reservations",
                       route_get_all_reservations(token, NoDate))
                   => reply'.code = 200]_vars

\* C14 amended: reservation creation and the menu reads succeed for a caller
\* who is not an admin; the reservation reads and every other menu,
\* reservation and order operation are refused to such a caller.
C14_PublicRoutes ==
    \A token \in Credentials :
        NotAdmin(token) =>
        /\ route_get_all_menu_items(token).code = 200
        /\ \A id \in DOMAIN menu_items : route_get_menu_item(token, id).code = 200
        /\ \A reservation \in ReservationCreate :
              LET result == route_create_reservation(token, reservation)
              IN  /\ result.code = 201
                  /\ result.store.reservations[reservation_seq + 1].status
                        = reservation.status
        /\ \A date \in Dates \cup {NoDate} :
              Refused(route_get_all_reservations(token, date))
        /\ Refused(route_get_todays_reservations(token))
        /\ \A menu_item \in MenuItemCreate :
              Refused(route_create_menu_item(token, menu_item))
        /\ \A id \in MenuIds, data \in MenuItemUpdate :
              Refused(route_update_menu_item(token, id, data))
        /\ \A id \in MenuIds : Refused(route_delete_menu_item(token, id))
        /\ \A id \in ReservationIds, data \in ReservationUpdate :
              Refused(route_update_reservation(token, id, data))
        /\ \A id \in ReservationIds :
              /\ Refused(route_delete_reservation(token, id))
              /\ Refused(route_get_order_by_reservation_id(token, id))
        /\ \A rid \in ReservationIds, items \in ShortLists :
              /\ Refused(route_create_order(token, rid, items))
              /\ \A oid \in OrderIds :
                    Refused(route_update_order(token, oid, rid, items))
        /\ \A oid \in OrderIds :
              /\ Refused(route_get_order(token, oid))
              /\ Refused(route_delete_order(token, oid))

\* a customer asked for the list of the reservations, one of which exists,
\* and was refused
C14_Witness ==
    /\ reply.op = "get_all_reservations"
    /\ reply.code = 403
    /\ reservations # <<>>
    /\ "guest" \in DOMAIN users

\* the token names a stored user with that user's role
NamesStoredUser(token) ==
    /\ token # NoToken
    /\ token.sub \in DOMAIN users
    /\ token.role \in Roles
    /\ users[token.sub].role = token.role

\* the token login answered with, when the last response is a login
Issued(token) ==
    /\ reply.op = "login_for_access_token"
    /\ reply.code = 200
    /\ reply.body.access_token = token

\* C15, its last clause as stated: a token issued by login for a user is
\* accepted by get_current_user as long as the user exists with the same role.
C15_IssuedTokenAccepted ==
    \A token \in Credentials :
        (Issued(token) /\ NamesStoredUser(token))
        => get_current_user(token).code = 0

\* C15 amended: get_current_user accepts a token exactly when its signature
\* verifies, it has not expired, and it carries a subject and a role that
\* name a stored user with that role, and then returns that user's identity
\* and role; every other token fails with 401, except a signed, unexpired
\* token whose role claim is neither admin nor customer, which fails with
\* 500.  A token issued by login is accepted until it expires.
C15_TokenValidationUntilExpiry ==
    \A token \in Credentials :
        LET current_user == get_current_user(token)
            decodes == token # NoToken /\ token.signed /\ token.exp >= clock
        IN  /\ current_user.code \in {0, 401, 500}
            /\ current_user.code = 0 <=> (decodes /\ NamesStoredUser(token))
            /\ current_user.code = 0 =>
                  /\ current_user.username = token.sub
                  /\ current_user.role = users[token.sub].role
            /\ current_user.code = 500 <=>
                  (decodes /\ token.sub # None /\ token.role \notin Roles \cup {None})
            /\ Issued(token) =>
                  current_user.code = IF token.exp >= clock THEN 0 ELSE 401

\* login issued a token for a user who is still stored with the same role,
\* and the token has expired since
C15_Witness ==
    /\ reply.op = "login_for_access_token"
    /\ reply.code = 200
    /\ NamesStoredUser(reply.body.access_token)
    /\ reply.body.access_token.exp < clock
    /\ get_current_user(reply.body.access_token).code = 401

\* a body with no field supplied
NoFields == Supplied(NoBody, {})

\* C16: update_menu_item and update_reservation with no field supplied
\* answer 400 and leave the stored entity, its updated_at included, unchanged.
C16_EmptyUpdateRejected ==
    /\ NoFields \in MenuItemUpdateFull
    /\ NoFields \in ReservationUpdateFull
    /\ \A id \in MenuIds :
          LET result == update_menu_item(id, NoFields)
          IN  result.code = 400 /\ result.store = Now
    /\ \A id \in ReservationIds :
          LET result == update_reservation(id, NoFields)
          IN  result.code = 400 /\ result.store = Now

\* an update of the stored reservation was answered 400, and the row still
\* carries a time stamp older than the clock
C16_Witness ==
    /\ reply.op = "update_reservation"
    /\ reply.code = 400
    /\ 1 \in DOMAIN reservations
    /\ reservations[1].updated_at < clock

\* the row after the update: the supplied fields have the supplied values,
\* the other columns are as before
UpdatedExactly(new, old, data, columns) ==
    /\ DOMAIN new = DOMAIN old
    /\ \A f \in DOMAIN data : new[f] = data[f]
    /\ \A f \in columns \ DOMAIN data : new[f] = old[f]

\* C17: a successful partial update of a menu item or a reservation sets
\* exactly the supplied fields to the supplied values and leaves the fields
\* that were not supplied (other than updated_at), every other row and
\* every other table unchanged.
C17_PartialUpdateFrame ==
    /\ \A id \in MenuIds, data \in MenuItemUpdateFull :
          LET result == update_menu_item(id, data)
          IN  result.code = 200 =>
                 /\ UpdatedExactly(result.store.menu_items[id], menu_items[id],
                                   data, MenuColumns)
                 /\ result.store = [Now EXCEPT !.menu_items[id] =
                                                  result.store.menu_items[id]]
    /\ \A id \in ReservationIds, data \in ReservationUpdateFull :
          LET result == update_reservation(id, data)
          IN  result.code = 200 =>
                 /\ UpdatedExactly(result.store.reservations[id], reservations[id],
                                   data, ReservationColumns)
                 /\ result.store = [Now EXCEPT !.reservations[id] =
                                                  result.store.reservations[id]]

\* a later update of the menu item changed its name and left it unavailable
\* at its price, while the reservation still is as it was booked
C17_Witness ==
    /\ reply.op = "update_menu_item"
    /\ reply.code = 200
    /\ clock > 0
    /\ menu_items[1].updated_at = clock
    /\ menu_items[1].name = "B"
    /\ menu_items[1].is_available = FALSE
    /\ reservations[1].updated_at = 0

\* the sum of the function f over a finite part of its domain
RECURSIVE SumOver(_, _)
SumOver(S, f) ==
    IF S = {} THEN 0
    ELSE LET x == CHOOSE y \in S : TRUE
         IN  f[x] + SumOver(S \ {x}, f)

\* the revenue records of the days start_date..end_date, by position
RecordsOfDays(start_date, end_date) ==
    {i \in 1..Len(revenue_records) :
        LET day == revenue_records[i].record_date \div 1440
        IN  /\ (start_date = NoDate \/ start_date <= day)
            /\ (end_date = NoDate \/ day <= end_date)}

\* C18: get_total_revenue_summary answers the sum of amount over the revenue
\* records dated within the inclusive range [start_date, end_date], each end
\* optional, and answers 0 when no record matches, a range with start_date
\* after end_date included.
C18_RevenueSummary ==
    \A start_date \in OptionalDates, end_date \in OptionalDates :
        LET result  == get_total_revenue_summary(start_date, end_date)
            matches == RecordsOfDays(start_date, end_date)
            amount == [i \in DOMAIN revenue_records |-> revenue_records[i].amount]
        IN  /\ result.code = 200
            /\ result.store = Now
            /\ result.body.total_revenue = SumOver(matches, amount)
            /\ (matches = {} => result.body.total_revenue = 0)
            /\ (start_date # NoDate /\ end_date # NoDate /\ start_date > end_date
                   => result.body.total_revenue = 0)

\* two records of different days are stored and the summary answered the
\* amount of the later one alone
C18_Witness ==
    /\ reply.op = "get_total_revenue_summary"
    /\ Len(revenue_records) = 2
    /\ revenue_records[1].amount = 1000
    /\ revenue_records[1].record_date = 600
    /\ revenue_records[2].amount = 2500
    /\ revenue_records[2].record_date = 43800
    /\ reply.body.total_revenue = 2500

\* the order items of a menu item sold in the days start_date..end_date
LinesOf(menu_item_id, start_date, end_date) ==
    {i \in 1..Len(order_items) :
        /\ order_items[i].menu_item_id = menu_item_id
        /\ LET day == reservations[orders[order_items[i].order_id].reservation_id]
                          .reservation_date
           IN  /\ (start_date = NoDate \/ start_date <= day)
               /\ (end_date = NoDate \/ day <= end_date)}

Sold(start_date, end_date) ==
    {m \in DOMAIN menu_items : LinesOf(m, start_date, end_date) # {}}

\* quantity descending, then name ascending
InReportOrder(a, b) ==
    \/ a.total_quantity > b.total_quantity
    \/ /\ a.total_quantity = b.total_quantity
       /\ NameRank(a.name) <= NameRank(b.name)

\* C19: get_most_sold_items answers one row per menu item sold in the date
\* range, with the sum of the quantities of its order items in the range,
\* ordered by total quantity descending and then by name ascending, and
\* only the first 20 of these rows; A with 10, B with 10 and C with 5 come
\* out as A, B, C.
C19_MostSoldItems ==
    \A start_date \in OptionalDates, end_date \in OptionalDates, scan \in ScanOrders :
        LET result == get_most_sold_items(start_date, end_date, scan)
            rows   == result.body.rows
            sold   == Sold(start_date, end_date)
            quantity == [i \in DOMAIN order_items |-> order_items[i].quantity]
            total(m) == SumOver(LinesOf(m, start_date, end_date), quantity)
            group(m) == [name |-> menu_items[m].name, total_quantity |-> total(m)]
            listed == {rows[i].menu_item_id : i \in 1..Len(rows)}
        IN  /\ result.code = 200
            /\ result.store = Now
            /\ \A i, j \in 1..Len(rows) :
                  rows[i].menu_item_id = rows[j].menu_item_id => i = j
            /\ listed \subseteq sold
            /\ \A i \in 1..Len(rows) :
                  /\ rows[i].name = menu_items[rows[i].menu_item_id].name
                  /\ rows[i].total_quantity = total(rows[i].menu_item_id)
            /\ \A i, j \in 1..Len(rows) : i < j => InReportOrder(rows[i], rows[j])
            /\ Len(rows) = (IF Cardinality(sold) < 20 THEN Cardinality(sold) ELSE 20)
            /\ \A m \in sold \ listed :
                  \A i \in 1..Len(rows) : InReportOrder(rows[i], group(m))
            /\ ({group(m) : m \in sold} =
                    {[name |-> "A", total_quantity |-> 10],
                     [name |-> "B", total_quantity |-> 10],
                     [name |-> "C", total_quantity |-> 5]}
                 => [i \in 1..Len(rows) |-> rows[i].name] = <<"A", "B", "C">>)

\* the report answered A with 10, B with 10 and C with 5 in this order,
\* while the items are stored in another order
C19_Witness ==
    /\ reply.op = "get_most_sold_items"
    /\ menu_seq = 3
    /\ menu_items[1].name = "B"
    /\ menu_items[2].name = "A"
    /\ Len(reply.body.rows) = 3
    /\ [i \in 1..3 |-> reply.body.rows[i].name] = <<"A", "B", "C">>
    /\ [i \in 1..3 |-> reply.body.rows[i].total_quantity] = <<10, 10, 5>>

\* C21: in every reachable state every order item has a quantity above zero
\* and a subtotal equal to its price_at_order times its quantity, whatever
\* create_order, update_order and the menu updates did before.
C21_OrderItemsConsistent ==
    \A i \in 1..Len(order_items) :
        /\ order_items[i].quantity > 0
        /\ order_items[i].subtotal =
              order_items[i].price_at_order * order_items[i].quantity

\* an item ordered twice over is stored, and the menu item has been repriced
\* since the order was taken
C21_Witness ==
    /\ reply.op = "update_menu_item"
    /\ reply.code = 200
    /\ \E i \in 1..Len(order_items) :
          /\ order_items[i].quantity = 2
          /\ order_items[i].menu_item_id \in DOMAIN menu_items
          /\ menu_items[order_items[i].menu_item_id].price
                # order_items[i].price_at_order

\* C22: a create_order request whose existence check found no order and
\* whose INSERT is rejected by the uniqueness of orders.reservation_id is
\* answered 409, as when the existence check finds the order.
C22_RaceLoserConflict ==
    [][\A p \in Procs :
          (/\ requests[p].pc = "insert"
           /\ UniqueViolation(orders, requests[p].reservation_id)
           /\ create_order_insert(p))
          => reply'.op = "create_order" /\ reply'.code = 409]_vars

\* the answer to a request that names no row: 404 and nothing changed
NotFound(result) == result.code = 404 /\ result.store = Now

\* C23: update_menu_item, delete_menu_item, update_reservation and
\* delete_reservation called with an id that matches no row answer 404 and
\* change no stored data.
C23_MissingIdNotFound ==
    /\ \A id \in MenuIds \ DOMAIN menu_items :
          /\ NotFound(delete_menu_item(id))
          /\ \A data \in MenuItemUpdate :
                DOMAIN data # {} => NotFound(update_menu_item(id, data))
    /\ \A id \in ReservationIds \ DOMAIN reservations :
          /\ NotFound(delete_reservation(id))
          /\ \A data \in ReservationUpdate :
                DOMAIN data # {} => NotFound(update_reservation(id, data))

\* C24: create_user with a username that is already registered answers 400
\* and adds no user.
C24_DuplicateUsernameBadRequest ==
    \A username \in DOMAIN users, password \in Passwords, role \in Roles :
        LET result == create_user(username, password, role)
        IN  result.code = 400 /\ result.store = Now

PasswordVerifies(username, password) ==
    /\ username \in DOMAIN users
    /\ verify_password(password, users[username].hashed_password)

\* C26: login answers an unknown username and a wrong password for a known
\* user with the identical 401 response and no token; it issues a token, for
\* the user and the role stored, only when the username exists and the
\* password verifies.
C26_LoginHidesUsernames ==
    /\ \A unknown \in Usernames \ DOMAIN users, known \in DOMAIN users,
          p1 \in Passwords, p2 \in Passwords :
          ~PasswordVerifies(known, p2) =>
             LET r1 == login_for_access_token(unknown, p1)
                 r2 == login_for_access_token(known, p2)
             IN  /\ r1 = r2
                 /\ r1.code = 401
                 /\ r1.body = [detail |-> "Incorrect username or password"]
    /\ \A username \in Usernames, password \in Passwords :
          LET result == login_for_access_token(username, password)
          IN  /\ result.store = Now
              /\ result.code \in {200, 401}
              /\ result.code = 200 <=> PasswordVerifies(username, password)
              /\ "access_token" \in DOMAIN result.body <=> result.code = 200
              /\ result.code = 200 =>
                    /\ result.body.access_token.sub = username
                    /\ result.body.access_token.role = users[username].role
                    /\ result.body.user_role = users[username].role

\* a login was refused while one username is unknown and the other is
\* registered under a password that a request can get wrong
C26_Witness ==
    /\ reply.op = "login_for_access_token"
    /\ reply.code = 401
    /\ reply.body = [detail |-> "Incorrect username or password"]
    /\ "guest" \notin DOMAIN users
    /\ \E password \in Passwords : ~PasswordVerifies("admin", password)
====
